---- MODULE Spec2Model ----
(***************************************************************************)
(* A model of the day-bucketed usage tracker of vscode-simple-tracker:     *)
(* DayManager (one JSON file per calendar day) and TimeManager             *)
(* (src/src/git.ts, lines 33-361), driven by the editor events and the     *)
(* periodic timer of src/src/extension.ts.  Several editor windows run     *)
(* one TimeManager each against the same files.                            *)
(*                                                                         *)
(* Time is counted in whole seconds.  A JavaScript object is a function    *)
(* whose DOMAIN is the set of its own keys, so that an absent field is     *)
(* an absent key.                                                          *)
(***************************************************************************)
EXTENDS Integers, Sequences, FiniteSets, TLC

\* ------------------------------------------------------------------ bounds
MaxTime == 2        \* the clock reads 0..MaxTime
MaxWeight == 3      \* a mutation is taken only while today's ledger weighs <= MaxWeight
MaxDays == 2        \* getStatsForPeriod is asked for 0..MaxDays days
FirstDay == 59      \* today, as a day of the year counted from 0 (59 = 1 March)

Instances == {"A", "B"}
Projects == {"X", "Y"}
Branches == {"main", "dev"}
Exts == {".ts", ".md"}

\* ------------------------------------------------------- JavaScript values
\* NaN and null as numbers outside the counters' range.
NaN == 0 - 1
Null == 0 - 2

EmptyObj == [x \in {} |-> 0]
Put(o, k, v) == [x \in (DOMAIN o) \cup {k} |-> IF x = k THEN v ELSE o[x]]
Del(o, k) == [x \in (DOMAIN o) \ {k} |-> o[x]]

\* !o[k] for a numeric field: absent, 0, NaN and null are falsy.
FalsyNum(o, k) == k \notin DOMAIN o \/ o[k] \in {0, NaN, Null}
\* !o[k] for an array or object field: absent is falsy, [] and {} are truthy.
FalsyObj(o, k) == k \notin DOMAIN o

\* a + b on numbers: undefined (an absent field, read as NaN) and NaN give
\* NaN, null counts as 0.
NumOf(o, k) == IF k \in DOMAIN o THEN o[k] ELSE NaN
Plus(a, b) ==
  IF a = NaN \/ b = NaN THEN NaN
  ELSE (IF a = Null THEN 0 ELSE a) + (IF b = Null THEN 0 ELSE b)

\* A spread without the Set: every element is kept.
SetSpreadAll(s) == s

\* [...new Set(s)]: the first occurrence of every element, in order.
RECURSIVE SetSpread(_)
SetSpread(s) ==
  IF s = <<>> THEN <<>>
  ELSE LET front == SetSpread(SubSeq(s, 1, Len(s) - 1))
           last == s[Len(s)]
       IN IF \E i \in 1..Len(front) : front[i] = last THEN front
          ELSE Append(front, last)

\* JSON.stringify writes NaN as null and keeps everything else; the text of
\* a file is kept as the tree it denotes.
JsonNum(v) == IF v = NaN THEN Null ELSE v
JsonEntry(e) ==
  [f \in DOMAIN e |-> IF f = "branches" THEN e[f] ELSE JsonNum(e[f])]
JsonDay(d) ==
  [f \in DOMAIN d |->
     IF f = "projects" THEN [p \in DOMAIN d[f] |-> JsonEntry(d[f][p])]
     ELSE [x \in DOMAIN d[f] |-> JsonNum(d[f][x])]]
Stringify(store) ==
  [kind |-> "json",
   tree |-> [f \in DOMAIN store |->
               IF f = "day" THEN JsonDay(store[f]) ELSE store[f]]]
NoFile == [kind |-> "none"]
Corrupt == [kind |-> "corrupt"]
\* A file of length 0.
Blank == [kind |-> "blank"]
\* readFile succeeds on a file that is there; JSON.parse on text that parses.
Readable(c) == c.kind # "none"
Parsable(c) == c.kind = "json"
Parse(c) == c.tree
\* !loadedContents: nothing was read, or the empty string.
NoContents(c) == ~Readable(c) \/ c = Blank
\* JSON.parse(JSON.stringify(day)): the deep clone of getStats.
Clone(d) == JsonDay(d)

\* ---------------------------------------------------------------- calendar
\* dateString(minusDays): `${getDate()}-${getMonth()+1}-${getFullYear()}` of
\* the day minusDays before today.  A day is numbered within a non-leap
\* year, day 0 being 1 January; a negative number is a day of the year
\* before.
MonthLen == <<31, 28, 31, 30, 31, 30, 31, 31, 30, 31, 30, 31>>
RECURSIVE MonthDay(_, _)
MonthDay(n, m) ==
  IF n < MonthLen[m] THEN <<n + 1, m>> ELSE MonthDay(n - MonthLen[m], m + 1)
DateKey(n) ==
  IF n < 0 THEN LET md == MonthDay(n + 365, 1) IN <<md[1], md[2], 2025>>
  ELSE LET md == MonthDay(n, 1) IN <<md[1], md[2], 2026>>

\* -------------------------------------------------------------- DayManager
CURRENT_SCHEMA_VERSION == "v1"

EmptyDay == [projects |-> EmptyObj, saves |-> EmptyObj]
ZeroEntry == [seconds |-> 0, branches |-> <<>>, tasks |-> 0, debugs |-> 0]
\* new DayManager(dateString): nothing read yet.
NewDayManager ==
  [exists |-> FALSE,
   store |-> [version |-> CURRENT_SCHEMA_VERSION, day |-> EmptyDay]]

\* A fixProject that starts the entry over even when there is one.
fixProjectAnew(dayObj, id) ==
  [dayObj EXCEPT !.projects = Put(dayObj.projects, id, ZeroEntry)]

\* fixProject(id) of validateDaySchema: complete the entry, or create it.
fixProject(dayObj, id) ==
  IF id \in DOMAIN dayObj.projects
  THEN LET e0 == dayObj.projects[id]
           e1 == IF FalsyObj(e0, "branches") THEN Put(e0, "branches", <<>>) ELSE e0
           e2 == IF FalsyNum(e1, "seconds") THEN Put(e1, "seconds", 0) ELSE e1
           e3 == IF FalsyNum(e2, "tasks") THEN Put(e2, "tasks", 0) ELSE e2
           e4 == IF FalsyNum(e3, "debugs") THEN Put(e3, "debugs", 0) ELSE e3
       IN [dayObj EXCEPT !.projects = Put(dayObj.projects, id, e4)]
  ELSE [dayObj EXCEPT !.projects = Put(dayObj.projects, id, ZeroEntry)]

RECURSIVE fixProjects(_, _)
fixProjects(dayObj, ids) ==
  IF ids = {} THEN dayObj
  ELSE LET id == CHOOSE x \in ids : TRUE
       IN fixProjects(fixProject(dayObj, id), ids \ {id})

\* A validateDaySchema that completes a project only when it is named.
validateDaySchemaNamed(dayObj, project) ==
  LET d1 == IF FalsyObj(dayObj, "projects") THEN Put(dayObj, "projects", EmptyObj)
            ELSE dayObj
      d2 == IF FalsyObj(d1, "saves") THEN Put(d1, "saves", EmptyObj) ELSE d1
  IN IF "id" \in DOMAIN project THEN fixProject(d2, project.id) ELSE d2

\* validateDaySchema(dayObj, project): project is {}, {id} or {all: true}.
validateDaySchema(dayObj, project) ==
  LET d1 == IF FalsyObj(dayObj, "projects") THEN Put(dayObj, "projects", EmptyObj)
            ELSE dayObj
      d2 == IF FalsyObj(d1, "saves") THEN Put(d1, "saves", EmptyObj) ELSE d1
  IN IF "id" \in DOMAIN project THEN fixProject(d2, project.id)
     ELSE IF "all" \in DOMAIN project /\ project.all
          THEN fixProjects(d2, DOMAIN d2.projects)
          ELSE d2

\* A load that falls back to a store without the current version tag.
DayLoadUntagged(dm, content) ==
  IF Readable(content) /\ Parsable(content)
  THEN LET st == Parse(content)
       IN [exists |-> TRUE,
           store |-> IF st.version # CURRENT_SCHEMA_VERSION
                     THEN [version |-> CURRENT_SCHEMA_VERSION,
                           day |-> validateDaySchema(st.day, [all |-> TRUE])]
                     ELSE st]
  ELSE [exists |-> FALSE, store |-> [version |-> "v0", day |-> EmptyDay]]

\* DayManager.load(), given what readFile finds at the manager's path.
DayLoad(dm, content) ==
  IF Readable(content) /\ Parsable(content)
  THEN LET st == Parse(content)
       IN [exists |-> TRUE,
           store |-> IF st.version # CURRENT_SCHEMA_VERSION
                     THEN [version |-> CURRENT_SCHEMA_VERSION,
                           day |-> validateDaySchema(st.day, [all |-> TRUE])]
                     ELSE st]
  ELSE [dm EXCEPT !.exists = FALSE]

\* A merge in which every in-memory entry wins, active or not.
mergeEvery(updatedProjects, mine, pids) ==
  [p \in (DOMAIN updatedProjects) \cup (DOMAIN mine) |->
     IF p \in DOMAIN mine THEN mine[p] ELSE updatedProjects[p]]

\* The loop of checkForChanges: the in-memory entry of every active project
\* that has one replaces the loaded entry.
RECURSIVE mergeActive(_, _, _)
mergeActive(updatedProjects, mine, pids) ==
  IF pids = {} THEN updatedProjects
  ELSE LET pid == CHOOSE x \in pids : TRUE
       IN mergeActive(IF pid \in DOMAIN mine
                      THEN Put(updatedProjects, pid, mine[pid])
                      ELSE updatedProjects,
                      mine, pids \ {pid})

\* A merge that takes a file that is not there for one without projects.
checkForChangesEmptied(dm, activeProjects, content) ==
  IF "day" \notin DOMAIN dm.store THEN dm
  ELSE [dm EXCEPT !.store.day.projects =
          mergeActive(IF NoContents(content) THEN EmptyObj
                      ELSE Parse(content).day.projects,
                      dm.store.day.projects, DOMAIN activeProjects)]

\* A save that does not merge what it read.
checkForChangesSkipped(dm, activeProjects, content) == dm

\* DayManager.checkForChanges(activeProjects), given the content read; it is
\* applied to content that parses (JSON.parse throws on any other).
checkForChanges(dm, activeProjects, content) ==
  IF NoContents(content) THEN dm
  ELSE LET loadedStore == Parse(content)
       IN IF "day" \notin DOMAIN dm.store \/ "day" \notin DOMAIN loadedStore
          THEN dm
          ELSE [dm EXCEPT !.store.day.projects =
                  mergeActive(loadedStore.day.projects, dm.store.day.projects,
                              DOMAIN activeProjects)]

\* One key of the details of DayManager.updateDetails: arrays are merged as
\* sets, ADD_PROPS are added, anything else is overwritten.  branches is the
\* one array-valued field of TrackerDetails.
ADD_PROPS == {"seconds", "tasks", "debugs"}
updateKey(existing, key, value) ==
  IF key = "branches"
  THEN SetSpread((IF key \in DOMAIN existing THEN existing[key] ELSE <<>>) \o value)
  ELSE IF key \in ADD_PROPS THEN Plus(NumOf(existing, key), value)
       ELSE value

\* An updateDetails that starts every field it is not given over.
updateDetailsFresh(dm, projectId, details) ==
  LET day == validateDaySchema(dm.store.day, [id |-> projectId])
      existing == day.projects[projectId]
      changed == [f \in (DOMAIN ZeroEntry) \cup (DOMAIN details) |->
                    IF f \in DOMAIN details
                    THEN updateKey(existing, f, details[f])
                    ELSE ZeroEntry[f]]
  IN [dm EXCEPT !.store.day = [day EXCEPT !.projects[projectId] = changed]]

\* DayManager.updateDetails(projectId, details).
updateDetails(dm, projectId, details) ==
  LET day == validateDaySchema(dm.store.day, [id |-> projectId])
      existing == day.projects[projectId]
      changed == [f \in (DOMAIN existing) \cup (DOMAIN details) |->
                    IF f \in DOMAIN details
                    THEN updateKey(existing, f, details[f])
                    ELSE existing[f]]
  IN [dm EXCEPT !.store.day = [day EXCEPT !.projects[projectId] = changed]]

\* An addSave that replaces the saves map by the one count.
DayAddSaveAlone(dm, ext) ==
  LET day == validateDaySchema(dm.store.day, EmptyObj)
      cur == IF FalsyNum(day.saves, ext) THEN 0 ELSE day.saves[ext]
  IN [dm EXCEPT !.store.day = [day EXCEPT !.saves = [x \in {ext} |-> cur + 1]]]

\* DayManager.addSave(ext).
DayAddSave(dm, ext) ==
  LET day == validateDaySchema(dm.store.day, EmptyObj)
      cur == IF FalsyNum(day.saves, ext) THEN 0 ELSE day.saves[ext]
  IN [dm EXCEPT !.store.day = [day EXCEPT !.saves = Put(day.saves, ext, cur + 1)]]

\* ------------------------------------------------------------------- state
VARIABLES
  now,      \* the wall clock, in seconds
  today,    \* the calendar day, as a day number
  disk,     \* date key -> content of that day's tracker file
  up,       \* the instances whose activate() has loaded the tracker
  days,     \* instance -> (date key -> DayManager): TimeManager.days
  active,   \* instance -> (project -> session start): TimeManager.activeProjects
  sv,       \* instance -> the save() in flight: pc, key, content read, content to
            \* write, how the save() before it ended
  ret       \* what the last getStats / getStatsForPeriod call returned

vars == <<now, today, disk, up, days, active, sv, ret>>

NoRet == [op |-> "none"]
\* A handler threw: this.today is undefined and a method is called on it.
Threw == [op |-> "TypeError"]
IdleSave == [pc |-> "idle"]
\* The last save() was rejected: its writeFile failed, or JSON.parse threw on
\* what it had read.
RejectedSave == [pc |-> "rejected"]

\* A distance in time that does not tell later from earlier.
secondsApart(pastTime) == IF now >= pastTime THEN now - pastTime ELSE pastTime - now

secondsSize(pastTime) == now - pastTime
dateString(minusDays) == DateKey(today - minusDays)
AllKeys == {DateKey(FirstDay - k) : k \in 0..MaxDays}

\* getTracking(): the keys of activeProjects.
getTracking(i) == DOMAIN active[i]

\* this.today: the DayManager of today's key, when there is one.
HasToday(i) == dateString(0) \in DOMAIN days[i]
Today(i) == days[i][dateString(0)]
SetToday(i, dm) == [days EXCEPT ![i] = Put(days[i], dateString(0), dm)]

Max(a, b) == IF a >= b THEN a ELSE b

\* The files the tracker leaves behind: complete entries, no branch twice.
EntryOne == [seconds |-> 1, branches |-> <<"main">>, tasks |-> 0, debugs |-> 0]
EntryTwo == [seconds |-> 0, branches |-> <<>>, tasks |-> 1, debugs |-> 0]
FileOf(projects, saves) ==
  Stringify([version |-> CURRENT_SCHEMA_VERSION,
             day |-> [projects |-> projects, saves |-> saves]])
SavedFiles ==
  { FileOf(EmptyObj, EmptyObj),
    FileOf([p \in {"X"} |-> EntryOne], EmptyObj),
    FileOf([p \in {"Y"} |-> EntryTwo], [e \in {".ts"} |-> 1]) }

InitCommon ==
  /\ now = 0
  /\ today = FirstDay
  /\ up = {}
  /\ days = [i \in Instances |-> EmptyObj]
  /\ active = [i \in Instances |-> EmptyObj]
  /\ sv = [i \in Instances |-> IdleSave]
  /\ ret = NoRet

\* Today's file is absent or one the tracker wrote; no file of an earlier day.
Init ==
  /\ InitCommon
  /\ \E f \in {NoFile} \cup SavedFiles :
       disk = [k \in AllKeys |-> IF k = DateKey(FirstDay) THEN f ELSE NoFile]

\* ------------------------------------------------------- TimeManager: load
\* activate(): tracker = new TimeManager(); await tracker.load().
Load(i) ==
  /\ i \notin up
  /\ up' = up \cup {i}
  /\ days' = SetToday(i, DayLoad(NewDayManager, disk[dateString(0)]))
  /\ ret' = NoRet
  /\ UNCHANGED <<now, today, disk, active, sv>>

\* ------------------------------------------------- TimeManager: mutations
\* Every handler reads this.today; with no manager for today's key it throws
\* before it has assigned anything.

\* A startTracking that keeps the start of a session that is running.
startTrackingKeepFirst(i, p) ==
  /\ i \in up
  /\ active' = [active EXCEPT ![i] =
                  IF p \in DOMAIN active[i] THEN active[i] ELSE Put(active[i], p, now)]
  /\ ret' = NoRet
  /\ UNCHANGED <<now, today, disk, up, days, sv>>

startTracking(i, p) ==
  /\ i \in up
  /\ active' = [active EXCEPT ![i] = Put(active[i], p, now)]
  /\ ret' = NoRet
  /\ UNCHANGED <<now, today, disk, up, days, sv>>

\* A settle that leaves the session start where it was.
updateDaySecondsKeepStart(tm, p) ==
  IF p \notin DOMAIN tm.act THEN tm
  ELSE [dm |-> updateDetails(tm.dm, p, [seconds |-> Max(0, secondsSize(tm.act[p]))]),
        act |-> tm.act]

\* A settle without the early return: a project with no session is credited
\* nothing and given a session.
updateDaySecondsUnguarded(tm, p) ==
  [dm |-> updateDetails(tm.dm, p,
            [seconds |-> IF p \in DOMAIN tm.act
                         THEN Max(0, secondsSize(tm.act[p])) ELSE 0]),
   act |-> Put(tm.act, p, now)]

\* updateDaySeconds(specificProject) on the pair (today's manager, sessions).
updateDaySeconds(tm, p) ==
  IF p \notin DOMAIN tm.act THEN tm
  ELSE [dm |-> updateDetails(tm.dm, p, [seconds |-> Max(0, secondsSize(tm.act[p]))]),
        act |-> Put(tm.act, p, now)]

\* A settle of one of the sessions only.
settleOne(tm, pids) ==
  IF pids = {} THEN tm
  ELSE updateDaySeconds(tm, CHOOSE x \in pids : TRUE)

\* The loop of updateAllDaySeconds over the keys of activeProjects.
RECURSIVE settleEach(_, _)
settleEach(tm, pids) ==
  IF pids = {} THEN tm
  ELSE LET p == CHOOSE x \in pids : TRUE
       IN settleEach(updateDaySeconds(tm, p), pids \ {p})

\* The weight of a day's ledger: its seconds, counters and branch names, all
\* added up.  The handlers are followed only while it stays within MaxWeight.
RECURSIVE SumOf(_)
SumOf(f) ==
  IF DOMAIN f = {} THEN 0
  ELSE LET x == CHOOSE y \in DOMAIN f : TRUE IN f[x] + SumOf(Del(f, x))
EntryWeight(e) ==
  Max(0, NumOf(e, "seconds")) + Max(0, NumOf(e, "tasks")) + Max(0, NumOf(e, "debugs"))
    + (IF "branches" \in DOMAIN e THEN Len(e.branches) ELSE 0)
Weight(day) ==
  SumOf([p \in DOMAIN day.projects |-> EntryWeight(day.projects[p])])
    + SumOf([x \in DOMAIN day.saves |-> Max(0, day.saves[x])])
InBound(dm) == Weight(dm.store.day) <= MaxWeight

updateAllDaySeconds(i) ==
  /\ i \in up
  /\ IF HasToday(i)
     THEN LET tm == settleEach([dm |-> Today(i), act |-> active[i]], DOMAIN active[i])
          IN /\ InBound(tm.dm)
             /\ days' = SetToday(i, tm.dm)
             /\ active' = [active EXCEPT ![i] = tm.act]
             /\ ret' = NoRet
     ELSE /\ UNCHANGED <<days, active>>
          /\ ret' = IF DOMAIN active[i] = {} THEN NoRet ELSE Threw
  /\ UNCHANGED <<now, today, disk, up, sv>>

endTracking(i, p) ==
  /\ i \in up
  /\ IF HasToday(i)
     THEN LET tm == updateDaySeconds([dm |-> Today(i), act |-> active[i]], p)
          IN /\ InBound(tm.dm)
             /\ days' = SetToday(i, tm.dm)
             /\ active' = [active EXCEPT ![i] = Del(tm.act, p)]
             /\ ret' = NoRet
     ELSE /\ UNCHANGED <<days, active>>
          /\ ret' = IF p \in DOMAIN active[i] THEN Threw ELSE NoRet
  /\ UNCHANGED <<now, today, disk, up, sv>>

\* A handler that replaces today's manager by dm, or throws when there is none.
OnToday(i, dm) ==
  IF HasToday(i) THEN InBound(dm) /\ days' = SetToday(i, dm) /\ ret' = NoRet
  ELSE UNCHANGED days /\ ret' = Threw

addBranch(i, p, branch) ==
  /\ i \in up
  /\ OnToday(i, updateDetails(Today(i), p, [branches |-> <<branch>>]))
  /\ UNCHANGED <<now, today, disk, up, active, sv>>

incrementTasks(i, p) ==
  /\ i \in up
  /\ OnToday(i, updateDetails(Today(i), p, [tasks |-> 1]))
  /\ UNCHANGED <<now, today, disk, up, active, sv>>

incrementDebugs(i, p) ==
  /\ i \in up
  /\ OnToday(i, updateDetails(Today(i), p, [debugs |-> 1]))
  /\ UNCHANGED <<now, today, disk, up, active, sv>>

addSave(i, ext) ==
  /\ i \in up
  /\ OnToday(i, DayAddSave(Today(i), ext))
  /\ UNCHANGED <<now, today, disk, up, active, sv>>

\* ------------------------------------------------------------------- clock
Tick ==
  /\ now < MaxTime
  /\ now' = now + 1
  /\ ret' = NoRet
  /\ UNCHANGED <<today, disk, up, days, active, sv>>

\* The wall clock is set back.
ClockBack ==
  /\ now > 0
  /\ now' = now - 1
  /\ ret' = NoRet
  /\ UNCHANGED <<today, disk, up, days, active, sv>>

\* Midnight passes: dateString() gives the next day's key from now on.
Midnight ==
  /\ today < FirstDay
  /\ today' = today + 1
  /\ ret' = NoRet
  /\ UNCHANGED <<now, disk, up, days, active, sv>>

\* ------------------------------------------------------- TimeManager: save
\* save() suspends twice: on the readFile of checkForChanges and on the
\* writeFile.  At most one asynchronous call of an instance, a save() or the
\* load of a getStats, is in flight.

\* save() up to the readFile: today's manager is picked and its file is read.
SaveBegin(i) ==
  /\ i \in up
  /\ sv[i].pc \in {"idle", "rejected"}
  /\ HasToday(i)
  /\ sv' = [sv EXCEPT ![i] = [pc |-> "merge", key |-> dateString(0),
                              rd |-> disk[dateString(0)], wr |-> NoFile,
                              after |-> sv[i].pc]]
  /\ ret' = NoRet
  /\ UNCHANGED <<now, today, disk, up, days, active>>

\* A merge that also takes over every save count of the file that is higher
\* than the one in memory.
SaveMergedCounts(dm, activeProjects, content) ==
  LET merged == checkForChanges(dm, activeProjects, content)
      mine == merged.store.day.saves
      theirs == IF Parsable(content) THEN Parse(content).day.saves ELSE EmptyObj
  IN [merged EXCEPT !.exists = TRUE,
                    !.store.day.saves =
                       [e \in (DOMAIN mine) \cup (DOMAIN theirs) |->
                          IF e \notin DOMAIN mine THEN theirs[e]
                          ELSE IF e \notin DOMAIN theirs THEN mine[e]
                          ELSE Max(mine[e], theirs[e])]]

\* The interval callback of activate(): updateAllDaySeconds(), then the
\* tooltip is refreshed from a copy of today's ledger, then save() is issued
\* and runs up to its readFile.  A throw of updateAllDaySeconds ends the
\* callback before save().  The save keeps, for the properties, the seconds
\* each active project had once the tick had settled it.
IntervalTick(i) ==
  /\ i \in up
  /\ sv[i].pc \in {"idle", "rejected"}
  /\ IF HasToday(i)
     THEN LET tm == settleEach([dm |-> Today(i), act |-> active[i]], DOMAIN active[i])
          IN /\ InBound(tm.dm)
             /\ days' = SetToday(i, tm.dm)
             /\ active' = [active EXCEPT ![i] = tm.act]
             /\ sv' = [sv EXCEPT ![i] =
                         [pc |-> "merge", key |-> dateString(0),
                          rd |-> disk[dateString(0)], wr |-> NoFile,
                          after |-> sv[i].pc,
                          tracked |-> [p \in DOMAIN active[i] |->
                                         tm.dm.store.day.projects[p].seconds]]]
             /\ ret' = NoRet
     ELSE /\ UNCHANGED <<days, active, sv>>
          /\ ret' = IF DOMAIN active[i] = {} THEN NoRet ELSE Threw
  /\ UNCHANGED <<now, today, disk, up>>

\* What DayManager.save() leaves in the manager before it writes.
SaveMerged(dm, activeProjects, content) ==
  [checkForChanges(dm, activeProjects, content) EXCEPT !.exists = TRUE]

\* A save that serializes the store before it merges.
SaveMergeStale(i) ==
  /\ sv[i].pc = "merge"
  /\ LET dm == SaveMerged(days[i][sv[i].key], active[i], sv[i].rd)
     IN /\ days' = [days EXCEPT ![i] = Put(days[i], sv[i].key, dm)]
        /\ sv' = [sv EXCEPT ![i] = [sv[i] EXCEPT !.pc = "write",
                                      !.wr = Stringify(days[i][sv[i].key].store)]]
  /\ ret' = NoRet
  /\ UNCHANGED <<now, today, disk, up, active>>

\* From the end of the read to the writeFile: the merge, JSON.stringify and
\* exists = true.  JSON.parse throws on content that does not parse and the
\* save is rejected with nothing written.
SaveMerge(i) ==
  /\ sv[i].pc = "merge"
  /\ IF ~NoContents(sv[i].rd) /\ ~Parsable(sv[i].rd)
     THEN /\ sv' = [sv EXCEPT ![i] = RejectedSave]
          /\ UNCHANGED days
     ELSE LET dm == SaveMerged(days[i][sv[i].key], active[i], sv[i].rd)
          IN /\ days' = [days EXCEPT ![i] = Put(days[i], sv[i].key, dm)]
             /\ sv' = [sv EXCEPT ![i] = [sv[i] EXCEPT !.pc = "write",
                                           !.wr = Stringify(dm.store)]]
  /\ ret' = NoRet
  /\ UNCHANGED <<now, today, disk, up, active>>

\* A write that lands in the file of the day before.
SaveWriteEve(i) ==
  /\ sv[i].pc = "write"
  /\ disk' = [disk EXCEPT ![dateString(1)] = sv[i].wr]
  /\ sv' = [sv EXCEPT ![i] = IdleSave]
  /\ ret' = NoRet
  /\ UNCHANGED <<now, today, up, days, active>>

\* The writeFile lands and save() resolves.
SaveWrite(i) ==
  /\ sv[i].pc = "write"
  /\ disk' = [disk EXCEPT ![sv[i].key] = sv[i].wr]
  /\ sv' = [sv EXCEPT ![i] = IdleSave]
  /\ ret' = NoRet
  /\ UNCHANGED <<now, today, up, days, active>>

\* The writeFile fails: nothing is written and save() rejects.
SaveWriteFails(i) ==
  /\ sv[i].pc = "write"
  /\ sv' = [sv EXCEPT ![i] = RejectedSave]
  /\ ret' = NoRet
  /\ UNCHANGED <<now, today, disk, up, days, active>>

\* ---------------------------------------------------- TimeManager: queries
\* A getDays that runs one day too far.
getDaysOneMore(lastAmount) == [k \in 1..(lastAmount + 1) |-> dateString(k - 1)]

\* getDays(lastAmount): the keys of today, yesterday, ...
getDays(lastAmount) == [k \in 1..lastAmount |-> dateString(k - 1)]

Undefined == [defined |-> FALSE]

\* A getStats that returns the manager's own object.
getStatsShared(dmap, day) ==
  LET loaded == IF day \notin DOMAIN dmap
                THEN Put(dmap, day, DayLoad(NewDayManager, disk[day]))
                ELSE dmap
  IN [days |-> loaded,
      val |-> IF loaded[day].exists
              THEN [defined |-> TRUE, day |-> loaded[day].store.day, shared |-> TRUE]
              ELSE Undefined]

\* getStats(day) on the managers dmap: a manager not yet there is created and
\* loaded; the result is a copy of the day's data if the manager exists.
\* shared tells whether the object returned is the one the manager holds.
getStats(dmap, day) ==
  LET loaded == IF day \notin DOMAIN dmap
                THEN Put(dmap, day, DayLoad(NewDayManager, disk[day]))
                ELSE dmap
  IN [days |-> loaded,
      val |-> IF loaded[day].exists
              THEN [defined |-> TRUE, day |-> Clone(loaded[day].store.day),
                    shared |-> FALSE]
              ELSE Undefined]

ZeroStats == [seconds |-> 0, branches |-> <<>>, tasks |-> 0, debugs |-> 0]

\* One round of the loop of getStatsForPeriod.
addDayStats(stats, dayStats, project) ==
  IF dayStats.defined /\ project \in DOMAIN dayStats.day.projects
  THEN LET e == dayStats.day.projects[project]
       IN [seconds |-> Plus(stats.seconds, NumOf(e, "seconds")),
           branches |-> IF "branches" \in DOMAIN e
                        THEN SetSpread(stats.branches \o e.branches)
                        ELSE stats.branches,
           tasks |-> Plus(stats.tasks, NumOf(e, "tasks")),
           debugs |-> Plus(stats.debugs, NumOf(e, "debugs"))]
  ELSE stats

RECURSIVE periodLoop(_, _, _, _)
periodLoop(acc, dayKeys, k, project) ==
  IF k > Len(dayKeys) THEN acc
  ELSE LET got == getStats(acc.days, dayKeys[k])
       IN periodLoop([days |-> got.days,
                      stats |-> addDayStats(acc.stats, got.val, project)],
                     dayKeys, k + 1, project)

getStatsForPeriod(dmap, project, n) ==
  periodLoop([days |-> dmap, stats |-> ZeroStats], getDays(n), 1, project)

GetStats(i, off) ==
  /\ i \in up
  /\ LET got == getStats(days[i], dateString(off))
     IN /\ days' = [days EXCEPT ![i] = got.days]
        /\ ret' = [op |-> "getStats", inst |-> i, key |-> dateString(off),
                   val |-> got.val]
  /\ UNCHANGED <<now, today, disk, up, active, sv>>

\* The caller of getStats assigns into the ledger it was given: a counter, a
\* branches list or the saves map.  The assignment is to the manager's ledger
\* as well when the two are one object.  The caller is followed for one
\* assignment more than the manager's ledger weighs.
WritesTo(day) ==
  {[day EXCEPT !.projects[p].tasks = @ + 1] : p \in DOMAIN day.projects}
    \cup {[day EXCEPT !.projects[p].branches = Append(@, "dev")] : p \in DOMAIN day.projects}
    \cup {[day EXCEPT !.saves = Put(@, ".md", 1)]}
CallerWrites(i) ==
  /\ ret.op = "getStats" /\ ret.inst = i /\ ret.val.defined
  /\ \E changed \in WritesTo(ret.val.day) :
       /\ Weight(changed) <= Weight(days[i][ret.key].store.day) + 1
       /\ Weight(changed) <= 3 * MaxWeight
       /\ changed # ret.val.day
       /\ ret' = [ret EXCEPT !.val.day = changed]
       /\ days' = IF ret.val.shared
                  THEN [days EXCEPT ![i][ret.key].store.day = changed]
                  ELSE days
  /\ UNCHANGED <<now, today, disk, up, active, sv>>

\* getStats(day) of a day that is not resident, step by step: the new manager
\* is put in this.days before its load() is awaited, and load() suspends on
\* its readFile.  The call in flight is kept where a save() in flight is.
GetStatsBegin(i, off) ==
  /\ i \in up
  /\ sv[i].pc = "idle"
  /\ dateString(off) \notin DOMAIN days[i]
  /\ days' = [days EXCEPT ![i] = Put(days[i], dateString(off), NewDayManager)]
  /\ sv' = [sv EXCEPT ![i] = [pc |-> "load", key |-> dateString(off),
                              rd |-> disk[dateString(off)]]]
  /\ ret' = NoRet
  /\ UNCHANGED <<now, today, disk, up, active>>

\* The read has resolved: load() goes on from it on the manager as it is by
\* now, and getStats returns a copy of the day's data if the manager exists.
GetStatsLoaded(i) ==
  /\ sv[i].pc = "load"
  /\ LET dm == DayLoad(days[i][sv[i].key], sv[i].rd)
     IN /\ days' = [days EXCEPT ![i] = Put(days[i], sv[i].key, dm)]
        /\ ret' = [op |-> "getStats", inst |-> i, key |-> sv[i].key,
                   val |-> IF dm.exists
                           THEN [defined |-> TRUE, day |-> Clone(dm.store.day),
                                 shared |-> FALSE]
                           ELSE Undefined]
  /\ sv' = [sv EXCEPT ![i] = IdleSave]
  /\ UNCHANGED <<now, today, disk, up, active>>

GetStatsForPeriod(i, p, n) ==
  /\ i \in up
  /\ LET got == getStatsForPeriod(days[i], p, n)
     IN /\ days' = [days EXCEPT ![i] = got.days]
        /\ ret' = [op |-> "getStatsForPeriod", inst |-> i, project |-> p,
                   n |-> n, val |-> got.stats]
  /\ UNCHANGED <<now, today, disk, up, active, sv>>

\* ---------------------------------------------------------- specifications
\* One window: load() and the mutation API of the tracker.
Next ==
  \/ Load("A")
  \/ \E p \in Projects : startTracking("A", p)
  \/ \E p \in Projects : endTracking("A", p)
  \/ updateAllDaySeconds("A")
  \/ \E p \in Projects, b \in Branches : addBranch("A", p, b)
  \/ \E p \in Projects : incrementTasks("A", p)
  \/ \E p \in Projects : incrementDebugs("A", p)
  \/ \E e \in Exts : addSave("A", e)

Spec == Init /\ [][Next]_vars

\* One window with a clock that runs and may be set back: sessions, settles
\* and getStats of today.
NextTrack ==
  \/ Load("A")
  \/ Tick
  \/ ClockBack
  \/ \E p \in Projects : startTracking("A", p)
  \/ \E p \in Projects : endTracking("A", p)
  \/ updateAllDaySeconds("A")
  \/ GetStats("A", 0)

SpecTrack == Init /\ [][NextTrack]_vars

\* Two windows on the same file, each with its own workspace folder open:
\* sessions, task counts and save().
Workspace(i) == IF i = "A" THEN "X" ELSE "Y"
NextTwo ==
  \/ \E i \in Instances : Load(i)
  \/ \E i \in Instances : startTracking(i, Workspace(i))
  \/ endTracking("A", Workspace("A"))
  \/ \E i \in Instances : incrementTasks(i, Workspace(i))
  \/ \E i \in Instances : SaveBegin(i)
  \/ \E i \in Instances : SaveMerge(i)
  \/ \E i \in Instances : SaveWrite(i)

\* Today's file is absent or holds what an earlier run of window B left.
InitTwo ==
  /\ InitCommon
  /\ \E f \in {NoFile, FileOf([p \in {"Y"} |-> EntryTwo], [e \in {".ts"} |-> 1])} :
       disk = [k \in AllKeys |-> IF k = DateKey(FirstDay) THEN f ELSE NoFile]

SpecTwo == InitTwo /\ [][NextTwo]_vars

\* One window whose earlier days have files: counts, branches, save() and the
\* two queries.
EntryOld == [seconds |-> 2, branches |-> <<"dev", "main">>, tasks |-> 1, debugs |-> 1]
PastFiles ==
  { NoFile,
    FileOf([p \in {"X", "Y"} |-> IF p = "X" THEN EntryOld ELSE EntryTwo],
           [e \in {".ts"} |-> 1]) }

InitPeriod ==
  /\ InitCommon
  /\ \E f \in {NoFile, FileOf([p \in {"X"} |-> EntryOne], EmptyObj)} :
     \E past \in [AllKeys -> PastFiles] :
        disk = [k \in AllKeys |-> IF k = DateKey(FirstDay) THEN f ELSE past[k]]

NextPeriod ==
  \/ Load("A")
  \/ addBranch("A", "X", "dev")
  \/ incrementTasks("A", "X")
  \/ SaveBegin("A")
  \/ SaveMerge("A")
  \/ SaveWrite("A")
  \/ \E k \in 0..(MaxDays - 1) : GetStats("A", k)
  \/ \E p \in Projects, n \in 0..MaxDays : GetStatsForPeriod("A", p, n)

SpecPeriod == InitPeriod /\ [][NextPeriod]_vars

\* One window on files it did not write in their current form: none, one
\* that does not parse, an empty one, one of an earlier schema tag whose
\* entry has no tasks and no debugs, one of the current tag whose entry has no
\* debugs.
FileTagged(version, projects, saves) ==
  Stringify([version |-> version, day |-> [projects |-> projects, saves |-> saves]])
OldFile ==
  FileTagged("v0", [p \in {"X"} |-> [seconds |-> 1, branches |-> <<"main">>]], EmptyObj)
ShortFile ==
  FileTagged(CURRENT_SCHEMA_VERSION,
             [p \in {"X"} |-> [seconds |-> 1, branches |-> <<"main">>, tasks |-> 1]],
             EmptyObj)

InitLoad ==
  /\ InitCommon
  /\ \E f \in {NoFile, Corrupt, Blank, OldFile, ShortFile} :
     \E g \in {NoFile, OldFile} :
        disk = [k \in AllKeys |-> IF k = DateKey(FirstDay) THEN f
                                  ELSE IF k = DateKey(FirstDay - 1) THEN g
                                  ELSE NoFile]

NextLoad ==
  \/ Load("A")
  \/ startTracking("A", "X")
  \/ endTracking("A", "X")
  \/ addBranch("A", "X", "dev")
  \/ incrementTasks("A", "X")
  \/ incrementDebugs("A", "X")
  \/ addSave("A", ".ts")
  \/ SaveBegin("A")
  \/ SaveMerge("A")
  \/ SaveWrite("A")
  \/ \E k \in 0..1 : GetStats("A", k)

SpecLoad == InitLoad /\ [][NextLoad]_vars

\* One window, the only writer of its files, on a disk whose writes may fail.
NextSolo ==
  \/ Load("A")
  \/ startTracking("A", "X")
  \/ endTracking("A", "X")
  \/ \E p \in Projects : incrementTasks("A", p)
  \/ addBranch("A", "X", "dev")
  \/ addSave("A", ".ts")
  \/ SaveBegin("A")
  \/ SaveMerge("A")
  \/ SaveWrite("A")
  \/ SaveWriteFails("A")

SpecSolo == Init /\ [][NextSolo]_vars

\* Two windows with the same workspace folder open, on a day without a file:
\* sessions, task counts, file saves and save().  Each window counts while
\* its ledger stays lighter than MaxWeight.
Light(i) == HasToday(i) /\ Weight(Today(i).store.day) + 1 < MaxWeight
NextShare ==
  \/ \E i \in Instances : Load(i)
  \/ \E i \in Instances : startTracking(i, "X")
  \/ \E i \in Instances : Light(i) /\ incrementTasks(i, "X")
  \/ \E i \in Instances : Light(i) /\ addSave(i, ".ts")
  \/ \E i \in Instances : SaveBegin(i)
  \/ \E i \in Instances : SaveMerge(i)
  \/ \E i \in Instances : SaveWrite(i)

InitShare ==
  /\ InitCommon
  /\ disk = [k \in AllKeys |-> NoFile]

SpecShare == InitShare /\ [][NextShare]_vars

\* One window with a running clock whose interval callback does the saving,
\* while folders are opened and closed.
NextTimer ==
  \/ Load("A")
  \/ Tick
  \/ \E p \in Projects : startTracking("A", p)
  \/ \E p \in Projects : endTracking("A", p)
  \/ IntervalTick("A")
  \/ SaveMerge("A")
  \/ SaveWrite("A")

SpecTimer == Init /\ [][NextTimer]_vars

\* One window with a running clock and one folder, whose handlers count and
\* settle while the interval callback's save() is under way.
NextDuring ==
  \/ Load("A")
  \/ Tick
  \/ startTracking("A", "X")
  \/ endTracking("A", "X")
  \/ updateAllDaySeconds("A")
  \/ addBranch("A", "X", "dev")
  \/ incrementTasks("A", "X")
  \/ incrementDebugs("A", "X")
  \/ addSave("A", ".ts")
  \/ IntervalTick("A")
  \/ SaveMerge("A")
  \/ SaveWrite("A")

SpecDuring == Init /\ [][NextDuring]_vars

\* One window with a running clock and one folder: every mutation of the
\* folder's project, and no save().
NextFields ==
  \/ Load("A")
  \/ Tick
  \/ startTracking("A", "X")
  \/ endTracking("A", "X")
  \/ updateAllDaySeconds("A")
  \/ addBranch("A", "X", "dev")
  \/ incrementTasks("A", "X")
  \/ incrementDebugs("A", "X")
  \/ addSave("A", ".ts")

SpecFields == Init /\ [][NextFields]_vars

\* One window and a caller of getStats that writes into what it is given.
NextCopy ==
  \/ Load("A")
  \/ startTracking("A", "X")
  \/ \E p \in Projects : incrementTasks("A", p)
  \/ SaveBegin("A")
  \/ SaveMerge("A")
  \/ SaveWrite("A")
  \/ \E k \in 0..1 : GetStats("A", k)
  \/ CallerWrites("A")

InitCopy ==
  /\ InitCommon
  /\ \E f \in {NoFile} \cup SavedFiles : \E g \in PastFiles:
        disk = [k \in AllKeys |-> IF k = DateKey(FirstDay) THEN f
                                  ELSE IF k = DateKey(FirstDay - 1) THEN g
                                  ELSE NoFile]

SpecCopy == InitCopy /\ [][NextCopy]_vars

\* One window that runs over midnight: it starts on the eve of FirstDay.
InitEve ==
  /\ now = 0
  /\ today = FirstDay - 1
  /\ up = {}
  /\ days = [i \in Instances |-> EmptyObj]
  /\ active = [i \in Instances |-> EmptyObj]
  /\ sv = [i \in Instances |-> IdleSave]
  /\ ret = NoRet
  /\ \E f \in {NoFile, FileOf([p \in {"X"} |-> EntryOne], EmptyObj)} :
       disk = [k \in AllKeys |-> IF k = DateKey(FirstDay - 1) THEN f ELSE NoFile]

NextEve ==
  \/ Load("A")
  \/ Midnight
  \/ startTracking("A", "X")
  \/ endTracking("A", "X")
  \/ updateAllDaySeconds("A")
  \/ addBranch("A", "X", "dev")
  \/ incrementTasks("A", "X")
  \/ incrementDebugs("A", "X")
  \/ addSave("A", ".ts")
  \/ GetStatsForPeriod("A", "X", 1)

SpecEve == InitEve /\ [][NextEve]_vars

\* Two windows around midnight: A was opened on the eve and asks for the
\* stats of the new day while its handlers count; B counts and saves.
NextLazy ==
  \/ \E i \in Instances : Load(i)
  \/ Midnight
  \/ incrementTasks("A", "X")
  \/ addSave("A", ".ts")
  \/ incrementTasks("B", "Y")
  \/ SaveBegin("B")
  \/ SaveMerge("B")
  \/ SaveWrite("B")
  \/ GetStatsBegin("A", 0)
  \/ GetStatsLoaded("A")

SpecLazy == InitEve /\ [][NextLazy]_vars

\* -------------------------------------------------------------- properties
\* Window A's ledger of today, read without raising on what is absent.
TodayProjects == IF HasToday("A") THEN Today("A").store.day.projects ELSE EmptyObj
TodaySaves == IF HasToday("A") THEN Today("A").store.day.saves ELSE EmptyObj
FieldOf(p, f) == IF p \in DOMAIN TodayProjects THEN TodayProjects[p][f] ELSE 0
BranchesOf(p) == IF p \in DOMAIN TodayProjects THEN TodayProjects[p].branches ELSE <<>>
SaveCount(e) == IF e \in DOMAIN TodaySaves THEN TodaySaves[e] ELSE 0
Range(q) == {q[k] : k \in 1..Len(q)}
NoTwice(q) == \A j, k \in 1..Len(q) : q[j] = q[k] => j = k
FreshStore == disk[dateString(0)] = NoFile
\* An entry of a project map, or its absence.
EntryAt(m, p) == IF p \in DOMAIN m THEN [present |-> TRUE, e |-> m[p]]
                 ELSE [present |-> FALSE]

\* C3: with a clock that has not been set back behind a session start, every
\* step of startTracking (of an idle project), updateAllDaySeconds,
\* endTracking or of the clock keeps, for every project, the recorded seconds
\* plus the running session's elapsed time equal to what it was plus the time
\* the clock moved while the project was active: from startTracking at t0 to
\* endTracking at t1 the recorded seconds grow by exactly t1 - t0.  Recorded
\* seconds are never negative.
Credit(p) ==
  FieldOf(p, "seconds")
    + (IF p \in DOMAIN active["A"] THEN now - active["A"][p] ELSE 0)
SessionStep ==
  \/ Tick
  \/ updateAllDaySeconds("A")
  \/ \E p \in Projects : endTracking("A", p)
  \/ \E p \in Projects : p \notin DOMAIN active["A"] /\ startTracking("A", p)
C6_ReadYourWrites ==
  \A p \in Projects :
    (/\ ret.op = "getStats" /\ ret.key = dateString(0) /\ FreshStore
     /\ p \in DOMAIN active["A"] /\ active["A"][p] = now
     /\ p \in DOMAIN TodayProjects)
    => /\ ret.val.defined
       /\ p \in DOMAIN ret.val.day.projects
       /\ ret.val.day.projects[p]
            = [seconds |-> FieldOf(p, "seconds"), branches |-> <<>>,
               tasks |-> 0, debugs |-> 0]

\* C7: getStats(today) returns, for every project, the stored seconds, plus
\* the time since its session start if the project is active.
C7_LiveSeconds ==
  (ret.op = "getStats" /\ ret.key = dateString(0) /\ ret.val.defined)
  => \A p \in DOMAIN ret.val.day.projects :
       ret.val.day.projects[p].seconds
         = FieldOf(p, "seconds")
             + (IF p \in DOMAIN active["A"] THEN secondsSize(active["A"][p]) ELSE 0)

\* C8: every incrementTasks(p) adds exactly 1 to p's tasks (0 while p has no
\* entry) and every incrementDebugs(p) exactly 1 to p's debugs, and no other
\* mutation call changes either: N calls from a ledger without p leave N.
C8_CountersCountCalls ==
  [][("A" \in up) =>
       \A p \in Projects :
         /\ FieldOf(p, "tasks")' =
              FieldOf(p, "tasks") + (IF incrementTasks("A", p) THEN 1 ELSE 0)
         /\ FieldOf(p, "debugs")' =
              FieldOf(p, "debugs") + (IF incrementDebugs("A", p) THEN 1 ELSE 0)]_vars
\* Two incrementTasks calls and one incrementDebugs call on a store that
\* began empty.
C8_Witness ==
  /\ FreshStore /\ FieldOf("X", "tasks") = 2 /\ FieldOf("X", "debugs") = 1

\* C9: no branch name is twice in a project's branches of today; addBranch of
\* a recorded name changes nothing, of a new name appends it.
C9_BranchesAreASet ==
  /\ [](\A p \in Projects : NoTwice(BranchesOf(p)))
  /\ [][\A p \in Projects, b \in Branches :
          addBranch("A", p, b) =>
            BranchesOf(p)' = (IF b \in Range(BranchesOf(p)) THEN BranchesOf(p)
                              ELSE Append(BranchesOf(p), b))]_vars
\* Two names recorded, in the order they came.
C9_Witness == BranchesOf("Y") = <<"dev", "main">> /\ BranchesOf("X") = <<"main">>

\* C10: addSave(ext) adds exactly 1 to saves[ext] and changes no other
\* count, no project entry and no session.
C10_AddSaveFrame ==
  [][\A e \in Exts :
       addSave("A", e) =>
         /\ SaveCount(e)' = SaveCount(e) + 1
         /\ e \in DOMAIN TodaySaves'
         /\ \A x \in Exts \ {e} : EntryAt(TodaySaves', x) = EntryAt(TodaySaves, x)
         /\ TodayProjects' = TodayProjects
         /\ active' = active]_vars
\* Two saves of one extension on a store that began empty, and one of another.
C10_Witness ==
  /\ FreshStore /\ SaveCount(".ts") = 2 /\ SaveCount(".md") = 1

\* The step of save() that merges and serializes, and the step that writes.
MergeStep(i) == sv[i].pc = "merge" /\ sv'[i].pc = "write"
WriteStep(i) == sv[i].pc = "write" /\ sv'[i].pc = "idle"
FileProjects(c) == Parse(c).day.projects
TasksIn(m, p) == IF p \in DOMAIN m THEN m[p].tasks ELSE 0

\* C1: when save() has read today's file, the entry of every project that it
\* leaves in memory and serializes for the write is the in-memory entry if
\* the project is active and has one, and the entry read from the file (or
\* none, if the file has none) otherwise.
C1_MergeRule ==
  [][\A i \in Instances :
       (MergeStep(i) /\ Parsable(sv[i].rd)) =>
         LET D == FileProjects(sv[i].rd)
             M == days[i][sv[i].key].store.day.projects
             merged == days'[i][sv[i].key].store.day.projects
             written == FileProjects(sv'[i].wr)
         IN \A p \in Projects :
              LET want == IF p \in DOMAIN active[i] /\ p \in DOMAIN M
                          THEN EntryAt(M, p) ELSE EntryAt(D, p)
              IN EntryAt(merged, p) = want /\ EntryAt(written, p) = want]_vars
\* A save about to write: its active project with the in-memory entry, which
\* differs from the file's, and an idle project with the file's entry, which
\* differs from what the window had loaded.
C1_Witness ==
  /\ sv["A"].pc = "write" /\ Parsable(sv["A"].rd)
  /\ "X" \in DOMAIN active["A"] /\ "Y" \notin DOMAIN active["A"]
  /\ TasksIn(FileProjects(sv["A"].wr), "X") = 2
  /\ TasksIn(FileProjects(sv["A"].rd), "X") = 1
  /\ TasksIn(FileProjects(sv["A"].rd), "Y") = 2
  /\ TasksIn(FileProjects(sv["A"].wr), "Y") = 2

\* C2: two windows, each tracking its own workspace, share today's file.  A
\* save() of a window serializes the in-memory entry of its own active
\* workspace, the write puts exactly the serialized store in the file, and
\* when the file is still what the save() read, the other workspace's entry
\* in the file is after the write what it was before it.
C2_OtherWindowKept ==
  [][\A i \in Instances :
       LET k == sv[i].key
           X == Workspace(i)
       IN /\ (/\ MergeStep(i) /\ Parsable(sv[i].rd)
              /\ X \in DOMAIN active[i]
              /\ X \in DOMAIN days[i][k].store.day.projects)
             => EntryAt(FileProjects(sv'[i].wr), X)
                  = EntryAt(days[i][k].store.day.projects, X)
          /\ WriteStep(i) => disk'[k] = sv[i].wr
          /\ (WriteStep(i) /\ Parsable(disk[k]) /\ disk[k] = sv[i].rd)
             => \A Y \in Projects \ {X} :
                  EntryAt(FileProjects(disk'[k]), Y)
                    = EntryAt(FileProjects(disk[k]), Y)]_vars
\* Window A about to write: the file it read is still there and holds Y as
\* window B counted it and nothing of X; A writes its X beside B's Y.
C2_Witness ==
  /\ sv["A"].pc = "write" /\ Parsable(sv["A"].rd)
  /\ disk[sv["A"].key] = sv["A"].rd
  /\ "X" \notin DOMAIN FileProjects(sv["A"].rd)
  /\ TasksIn(FileProjects(sv["A"].rd), "Y") = 2
  /\ TasksIn(days["B"][sv["A"].key].store.day.projects, "Y") = 2
  /\ "X" \in DOMAIN active["A"]
  /\ TasksIn(FileProjects(sv["A"].wr), "X") = 1
  /\ TasksIn(FileProjects(sv["A"].wr), "Y") = 2

\* C4, as claimed: when save() completes, a fresh load() of the file gives
\* the saving window's in-memory ledger of that moment.
C4_RoundTripAtCompletion ==
  [][\A i \in Instances :
       WriteStep(i) =>
         LET fresh == DayLoad(NewDayManager, disk'[sv[i].key])
         IN fresh.exists /\ fresh.store.day = days'[i][sv[i].key].store.day]_vars

\* C4, amended: a fresh load() of what save() serializes gives the in-memory
\* ledger as the merge left it, and the write puts exactly that in the file.
C4_RoundTripAtSerialize ==
  [][\A i \in Instances :
       /\ MergeStep(i) =>
            LET fresh == DayLoad(NewDayManager, sv'[i].wr)
            IN fresh.exists /\ fresh.store.day = days'[i][sv[i].key].store.day
       /\ WriteStep(i) => disk'[sv[i].key] = sv[i].wr]_vars
\* A save has completed and the file loads to the window's ledger, which
\* holds a count made in this run next to an entry merged from the file.
C4_Witness ==
  /\ "A" \in up /\ sv["A"].pc = "idle" /\ Parsable(disk[dateString(0)])
  /\ DayLoad(NewDayManager, disk[dateString(0)]).store.day = Today("A").store.day
  /\ TasksIn(TodayProjects, "X") = 1
  /\ TasksIn(TodayProjects, "Y") = 2

\* The data of the day k days back: today's is window A's ledger once its
\* manager exists (its file was loaded or has been saved), an earlier day's
\* is its file's.
DayData(k) ==
  IF k = 0
  THEN (IF HasToday("A") /\ Today("A").exists
        THEN [defined |-> TRUE, day |-> Today("A").store.day] ELSE Undefined)
  ELSE (IF Parsable(disk[dateString(k)])
        THEN [defined |-> TRUE, day |-> Parse(disk[dateString(k)]).day]
        ELSE Undefined)
Counts(k, p) == DayData(k).defined /\ p \in DOMAIN DayData(k).day.projects
RECURSIVE SumDays(_, _, _)
SumDays(n, p, f) ==
  IF n = 0 THEN 0
  ELSE SumDays(n - 1, p, f)
         + (IF Counts(n - 1, p) THEN DayData(n - 1).day.projects[p][f] ELSE 0)

\* C5: getStatsForPeriod(p, n) returns the sums of p's seconds, tasks and
\* debugs and the union, without repeats, of p's branches over the days 0 to
\* n-1 back from today; a day without data or without p adds nothing.
C5_PeriodSums ==
  ret.op = "getStatsForPeriod" =>
    /\ ret.val.seconds = SumDays(ret.n, ret.project, "seconds")
    /\ ret.val.tasks = SumDays(ret.n, ret.project, "tasks")
    /\ ret.val.debugs = SumDays(ret.n, ret.project, "debugs")
    /\ Range(ret.val.branches) =
         UNION {Range(DayData(k).day.projects[ret.project].branches) :
                  k \in {j \in 0..(ret.n - 1) : Counts(j, ret.project)}}
    /\ NoTwice(ret.val.branches)
\* Two days with data for X, sharing a branch name, and today counted too.
C5_Witness ==
  /\ ret.op = "getStatsForPeriod" /\ ret.project = "X" /\ ret.n = 2
  /\ Counts(0, "X") /\ Counts(1, "X")
  /\ FieldOf("X", "tasks") = 1
  /\ ret.val.seconds = 3 /\ ret.val.tasks = 2
  /\ ret.val.branches = <<"main", "dev">>

\* C11: endTracking(p) of a project with no session raises nothing and changes
\* neither a ledger nor a session; of a project with a session, it adds the
\* time since the session start to p's seconds (an entry is created for it if
\* there is none), leaves p's other fields, and ends p's session only.
Settled(p) ==
  LET e == IF p \in DOMAIN TodayProjects THEN TodayProjects[p] ELSE ZeroEntry
  IN [e EXCEPT !.seconds = e.seconds + Max(0, now - active["A"][p])]
C11_EndTracking ==
  [][\A p \in Projects :
       endTracking("A", p) =>
         /\ ret' # Threw
         /\ IF p \in DOMAIN active["A"]
            THEN /\ active'["A"] = Del(active["A"], p)
                 /\ TodayProjects' = Put(TodayProjects, p, Settled(p))
                 /\ TodaySaves' = TodaySaves
            ELSE days' = days /\ active' = active]_vars
\* One session of a second ended and settled; the other project has neither a
\* session nor an entry, and ending it again changes nothing.
C11_Witness ==
  /\ FreshStore /\ now = 1 /\ DOMAIN active["A"] = {}
  /\ DOMAIN TodayProjects = {"X"} /\ FieldOf("X", "seconds") = 1

\* C12: startTracking(p) raises nothing, changes no ledger and sets p's
\* session start to the current time, also when p has a session already; the
\* next settle credits p with the time since that latest start, once.
C12_RestartTracking ==
  /\ [][\A p \in Projects :
          startTracking("A", p) =>
            /\ ret' # Threw
            /\ days' = days
            /\ active'["A"] = Put(active["A"], p, now)]_vars
  /\ [][updateAllDaySeconds("A") =>
          \A p \in DOMAIN active["A"] :
            /\ FieldOf(p, "seconds")'
                 = FieldOf(p, "seconds") + Max(0, now - active["A"][p])
            /\ active'["A"][p] = now]_vars
\* A session started at 0, settled at 1 and started again at 2: the ledger
\* holds the one settled second.
C12_Witness ==
  /\ FreshStore /\ now = 2 /\ DOMAIN active["A"] = {"X"} /\ active["A"]["X"] = 2
  /\ DOMAIN TodayProjects = {"X"} /\ FieldOf("X", "seconds") = 1

\* A counter of window A's ledger of today, 0 when the entry or the field is
\* not there.
CounterOf(p, f) ==
  IF p \in DOMAIN TodayProjects /\ f \in DOMAIN TodayProjects[p]
  THEN TodayProjects[p][f] ELSE 0
\* load() fell back: today's manager was made and its file was not read.
FellBack == "A" \in up /\ HasToday("A") /\ ~Today("A").exists

C15_DebugsFilledOnLoad ==
  [][(Load("A") /\ Parsable(disk[dateString(0)])) =>
       LET stored == FileProjects(disk[dateString(0)])
           loaded == Today("A")'.store.day.projects
       IN \A p \in DOMAIN stored :
            "debugs" \notin DOMAIN stored[p] =>
              /\ p \in DOMAIN loaded
              /\ "debugs" \in DOMAIN loaded[p] /\ loaded[p].debugs = 0
              /\ \A f \in DOMAIN stored[p] :
                   f \in DOMAIN loaded[p] /\ loaded[p][f] = stored[p][f]]_vars

\* C18: every day ledger a window holds has projects and saves, and every
\* project entry in it has seconds, branches, tasks and debugs.
WellFormed(day) ==
  /\ {"projects", "saves"} \subseteq DOMAIN day
  /\ \A p \in DOMAIN day.projects :
       {"seconds", "branches", "tasks", "debugs"} \subseteq DOMAIN day.projects[p]
C18_LedgersWellFormed ==
  \A i \in up : \A k \in DOMAIN days[i] :
    "day" \in DOMAIN days[i][k].store /\ WellFormed(days[i][k].store.day)

\* C19: with one window and no other writer, save() leaves today's
\* in-memory ledger as it was and serializes exactly that ledger, so nothing a
\* handler counted for a project without a session is dropped or replaced.
C19_SaveKeepsMemory ==
  [][MergeStep("A") =>
       LET before == days["A"][sv["A"].key].store.day
       IN /\ days'["A"][sv["A"].key].store.day = before
          /\ Parse(sv'["A"].wr).day = before]_vars

\* C14: a writeFile that fails leaves the file as it was and rejects the
\* save(); the save() after it serializes, and its write puts in the file,
\* the in-memory ledger as it is then, whatever was counted in between.
C14_RetryWritesCurrent ==
  /\ [][SaveWriteFails("A") => disk' = disk /\ sv'["A"] = RejectedSave]_vars
  /\ [][(MergeStep("A") /\ sv["A"].after = "rejected") =>
          Parse(sv'["A"].wr).day = days["A"][sv["A"].key].store.day]_vars
  /\ [][WriteStep("A") => disk'[sv["A"].key] = sv["A"].wr]_vars

C17_TrackingSet ==
  [][/\ \A p \in Projects :
          /\ startTracking("A", p) => p \in getTracking("A")'
          /\ endTracking("A", p) => p \notin getTracking("A")'
     /\ getTracking("A")' # getTracking("A") =>
          \E p \in Projects :
            \/ startTracking("A", p) /\ getTracking("A")' = getTracking("A") \cup {p}
            \/ endTracking("A", p) /\ getTracking("A")' = getTracking("A") \ {p}]_vars

\* The window was loaded on the eve and midnight has passed.
Rolled ==
  /\ "A" \in up /\ today = FirstDay
  /\ DateKey(FirstDay - 1) \in DOMAIN days["A"]

\* C20: after the day changed under a running window, no mutation raises,
\* and each applies to the new day's ledger: the counters gain 1, the branch
\* is recorded, endTracking ends the session.
C20_MutationsAfterMidnight ==
  [][Rolled =>
       /\ ret' # Threw
       /\ incrementTasks("A", "X")
            => CounterOf("X", "tasks")' = CounterOf("X", "tasks") + 1
       /\ incrementDebugs("A", "X")
            => CounterOf("X", "debugs")' = CounterOf("X", "debugs") + 1
       /\ addBranch("A", "X", "dev") => "dev" \in Range(BranchesOf("X"))'
       /\ addSave("A", ".ts") => SaveCount(".ts")' = SaveCount(".ts") + 1
       /\ endTracking("A", "X") => "X" \notin DOMAIN active'["A"]]_vars

\* C21: a save() that finds no file for today merges nothing: the in-memory
\* ledger stays as it is, the manager is marked as existing, and the write
\* that follows creates the file with the serialized in-memory store, which
\* parses back to the same projects and save counts.
C21_FirstSaveCreates ==
  /\ [][(MergeStep("A") /\ sv["A"].rd = NoFile) =>
          LET dm == days["A"][sv["A"].key]
          IN /\ days'["A"][sv["A"].key] = [dm EXCEPT !.exists = TRUE]
             /\ sv'["A"].wr = Stringify(dm.store)
             /\ Parse(sv'["A"].wr).day = dm.store.day]_vars
  /\ [][(WriteStep("A") /\ sv["A"].rd = NoFile) =>
          /\ disk' = [disk EXCEPT ![sv["A"].key] = sv["A"].wr]
          /\ days' = days]_vars
\* The first save of a window that found no file, about to write: the idle
\* project counted in memory is in what it serialized.
C21_Witness ==
  /\ sv["A"].pc = "write" /\ sv["A"].rd = NoFile /\ FreshStore
  /\ Today("A").exists /\ "X" \notin DOMAIN active["A"]
  /\ TasksIn(FileProjects(sv["A"].wr), "X") = 1
  /\ TasksIn(TodayProjects, "X") = 1

\* A file that holds text that is not JSON is never written again.
UnparsableFileStays ==
  [][\A k \in AllKeys : disk[k] = Corrupt => disk'[k] = Corrupt]_vars

\* C22: a save() that has read content that does not parse from today's
\* file still goes on to serialize the in-memory store and to write it over
\* the file.
C22_SaveOverwritesUnparsable ==
  [][(sv["A"].pc = "merge" /\ ~Parsable(sv["A"].rd) /\ sv'["A"] # sv["A"]) =>
       /\ sv'["A"].pc = "write"
       /\ sv'["A"].wr = Stringify(days'["A"][sv["A"].key].store)]_vars

\* C23: load() of a file whose version tag is not the current one leaves
\* the current tag in memory and, for every project of the file, an entry
\* with seconds, branches, tasks and debugs: each stored field with its
\* stored value, each missing counter 0 and missing branches empty; the save
\* counts are as stored.  load() of a file with the current tag leaves the
\* parsed store as it is.
FieldDefault(f) == IF f = "branches" THEN <<>> ELSE 0
C23_LoadMigrates ==
  [][(Load("A") /\ Parsable(disk[dateString(0)])) =>
       LET st == Parse(disk[dateString(0)])
           stored == st.day.projects
           loaded == Today("A")'.store
       IN IF st.version # CURRENT_SCHEMA_VERSION
          THEN /\ loaded.version = CURRENT_SCHEMA_VERSION
               /\ loaded.day.saves = st.day.saves
               /\ DOMAIN loaded.day.projects = DOMAIN stored
               /\ \A p \in DOMAIN stored :
                    /\ DOMAIN loaded.day.projects[p]
                         = {"seconds", "branches", "tasks", "debugs"}
                            \cup DOMAIN stored[p]
                    /\ \A f \in DOMAIN loaded.day.projects[p] :
                         loaded.day.projects[p][f]
                           = IF f \in DOMAIN stored[p] THEN stored[p][f]
                             ELSE FieldDefault(f)
          ELSE loaded = st]_vars
\* A file of an earlier tag, loaded: its project has the stored second and
\* branch and the two counters it lacked, and the tag in memory is current.
C23_Witness ==
  /\ disk[dateString(0)] = OldFile /\ HasToday("A") /\ Today("A").exists
  /\ Today("A").store.version = CURRENT_SCHEMA_VERSION
  /\ TodayProjects
       = [p \in {"X"} |-> [seconds |-> 1, branches |-> <<"main">>,
                           tasks |-> 0, debugs |-> 0]]

\* C24: updateAllDaySeconds() raises nothing and leaves the set of sessions
\* as it was; every active project has its entry (a zero entry if it had
\* none) with the elapsed time added to seconds and nothing else changed, and
\* its session start at the current time; the entry, or the absence, of every
\* other project and the save counts are unchanged.
C24_SettleAllFrame ==
  [][updateAllDaySeconds("A") =>
       /\ ret' # Threw
       /\ DOMAIN active'["A"] = DOMAIN active["A"]
       /\ TodaySaves' = TodaySaves
       /\ \A p \in Projects :
            IF p \in DOMAIN active["A"]
            THEN /\ EntryAt(TodayProjects', p) = [present |-> TRUE, e |-> Settled(p)]
                 /\ active'["A"][p] = now
            ELSE EntryAt(TodayProjects', p) = EntryAt(TodayProjects, p)]_vars
\* Two sessions started at 0 and settled together at 1 in a ledger that had
\* neither project: each has its second and its new start.
C24_Witness ==
  /\ FreshStore /\ now = 1
  /\ active["A"] = [p \in Projects |-> 1]
  /\ DOMAIN TodayProjects = Projects
  /\ \A p \in Projects :
       TodayProjects[p] = [ZeroEntry EXCEPT !.seconds = 1]

\* C25: recorded seconds are never negative, and no settle, by
\* updateAllDaySeconds or by endTracking, raises or lowers the seconds of any
\* project.  A settle of a session whose start is later than the current time
\* leaves the project's seconds as they were, and updateAllDaySeconds puts the
\* session's start at the current time.
C25_ClockSetBack ==
  /\ [](\A p \in Projects : FieldOf(p, "seconds") >= 0)
  /\ [][updateAllDaySeconds("A") =>
          /\ ret' # Threw
          /\ \A p \in Projects :
               /\ FieldOf(p, "seconds")' >= FieldOf(p, "seconds")
               /\ (p \in DOMAIN active["A"] /\ active["A"][p] > now) =>
                    /\ FieldOf(p, "seconds")' = FieldOf(p, "seconds")
                    /\ active'["A"][p] = now]_vars
  /\ [][\A q \in Projects :
          endTracking("A", q) =>
            /\ ret' # Threw
            /\ \A p \in Projects :
                 FieldOf(p, "seconds")' >= FieldOf(p, "seconds")
            /\ (q \in DOMAIN active["A"] /\ active["A"][q] > now) =>
                 FieldOf(q, "seconds")' = FieldOf(q, "seconds")]_vars
\* The clock is behind the start of one session, and the other project,
\* whose session starts at the clock's reading, has kept its settled second.
C25_Witness ==
  /\ FreshStore /\ now = 0
  /\ active["A"] = [p \in Projects |-> IF p = "X" THEN 0 ELSE 1]
  /\ FieldOf("X", "seconds") = 1

\* C26: save() takes no save count from the file: after the merge the save
\* counts in memory, and those serialized for the write, are the ones the
\* window had, whatever the file holds; the entry serialized for a project
\* that is active in the window and has an entry there is the window's own;
\* and the write replaces the file by what was serialized.  So what another
\* window has counted and written is replaced by this window's counts.
C26_CountsNotMerged ==
  /\ [][\A i \in Instances :
          MergeStep(i) =>
            LET mine == days[i][sv[i].key].store.day
                written == Parse(sv'[i].wr).day
            IN /\ days'[i][sv[i].key].store.day.saves = mine.saves
               /\ written.saves = mine.saves
               /\ \A p \in (DOMAIN active[i]) \cap (DOMAIN mine.projects) :
                    /\ p \in DOMAIN written.projects
                    /\ written.projects[p] = mine.projects[p]]_vars
  /\ [][\A i \in Instances :
          WriteStep(i) => disk' = [disk EXCEPT ![sv[i].key] = sv[i].wr]]_vars
\* Both windows loaded when there was no file, and each has counted one file
\* save and one task of the project they both have active (B's save() found
\* no file, so nothing either holds came from the other).  A has written:
\* the file holds 1 and 1.  B is about to write 1 and 1 over it: two file
\* saves and two tasks were counted, and the file will hold one of each.
C26_Witness ==
  /\ sv["A"].pc = "idle" /\ sv["B"].pc = "write" /\ sv["B"].rd = NoFile
  /\ \A i \in Instances :
       /\ "X" \in DOMAIN active[i]
       /\ days[i][dateString(0)].store.day.saves = [e \in {".ts"} |-> 1]
       /\ TasksIn(days[i][dateString(0)].store.day.projects, "X") = 1
  /\ Parsable(disk[dateString(0)])
  /\ Parse(disk[dateString(0)]).day.saves = [e \in {".ts"} |-> 1]
  /\ TasksIn(FileProjects(disk[dateString(0)]), "X") = 1
  /\ Parse(sv["B"].wr).day.saves = [e \in {".ts"} |-> 1]
  /\ TasksIn(FileProjects(sv["B"].wr), "X") = 1

\* C27: the interval callback settles every active project before its
\* save() reads the file, and the file its save() writes holds, for every
\* project that was active at the tick, at least the seconds the project had
\* once the tick had settled it.
C27_TickSettlesThenSaves ==
  /\ [][IntervalTick("A") =>
          \A p \in DOMAIN active["A"] :
            /\ active'["A"][p] = now
            /\ FieldOf(p, "seconds")'
                 = FieldOf(p, "seconds") + Max(0, now - active["A"][p])
            /\ sv'["A"].pc = "merge"
            /\ sv'["A"].tracked[p] = FieldOf(p, "seconds")']_vars
  /\ [][WriteStep("A") =>
          LET file == FileProjects(disk'[sv["A"].key])
          IN \A p \in DOMAIN sv["A"].tracked :
               p \in DOMAIN file /\ file[p].seconds >= sv["A"].tracked[p]]_vars

\* While save() waits for its read, the handlers act on the in-memory ledger
\* as at any other time: for the project with a session, incrementTasks and
\* incrementDebugs add 1, addBranch records the name and a settle adds the
\* elapsed time, and addSave adds 1 to its count.  When the read has
\* resolved, the merge keeps the in-memory save counts and the in-memory
\* entry of every project that has a session then, in memory and in what is
\* serialized for the write; the write puts exactly that in the file and
\* changes nothing in memory.
Reading == sv["A"].pc = "merge"
KeptWhileActive ==
  /\ [][(Reading /\ "X" \in DOMAIN active["A"]) =>
          /\ incrementTasks("A", "X")
               => /\ ret' # Threw
                  /\ CounterOf("X", "tasks")' = CounterOf("X", "tasks") + 1
          /\ incrementDebugs("A", "X")
               => /\ ret' # Threw
                  /\ CounterOf("X", "debugs")' = CounterOf("X", "debugs") + 1
          /\ addBranch("A", "X", "dev")
               => /\ ret' # Threw
                  /\ Range(BranchesOf("X"))' = Range(BranchesOf("X")) \cup {"dev"}
          /\ updateAllDaySeconds("A")
               => /\ ret' # Threw
                  /\ CounterOf("X", "seconds")'
                       = CounterOf("X", "seconds") + Max(0, now - active["A"]["X"])]_vars
  /\ [][(Reading /\ addSave("A", ".ts")) =>
          ret' # Threw /\ SaveCount(".ts")' = SaveCount(".ts") + 1]_vars
  /\ [][MergeStep("A") =>
          LET mine == days["A"][sv["A"].key].store.day
              merged == days'["A"][sv["A"].key].store.day
              written == Parse(sv'["A"].wr).day
          IN /\ merged.saves = mine.saves /\ written.saves = mine.saves
             /\ \A p \in (DOMAIN active["A"]) \cap (DOMAIN mine.projects) :
                  /\ EntryAt(merged.projects, p) = EntryAt(mine.projects, p)
                  /\ EntryAt(written.projects, p) = EntryAt(mine.projects, p)]_vars
  /\ [][WriteStep("A") =>
          days' = days /\ disk' = [disk EXCEPT ![sv["A"].key] = sv["A"].wr]]_vars

\* C30: what was counted while save() waited for its read is in memory and
\* in what is serialized once the read has resolved: the save counts are the
\* in-memory ones, and a project that was active when the save was issued and
\* has since been settled for more seconds than it had then keeps those
\* seconds in memory and has them in what is serialized.
C30_DeliveredDuringRead ==
  [][MergeStep("A") =>
       LET mine == days["A"][sv["A"].key].store.day
           merged == days'["A"][sv["A"].key].store.day
           written == Parse(sv'["A"].wr).day
       IN /\ merged.saves = mine.saves /\ written.saves = mine.saves
          /\ \A p \in (DOMAIN sv["A"].tracked) \cap (DOMAIN mine.projects) :
               mine.projects[p].seconds > sv["A"].tracked[p] =>
                 /\ p \in DOMAIN merged.projects
                 /\ merged.projects[p].seconds = mine.projects[p].seconds
                 /\ p \in DOMAIN written.projects
                 /\ written.projects[p].seconds = mine.projects[p].seconds]_vars

\* C28: no step changes the in-memory ledger of a day other than today once
\* the window holds it, and no step changes the file of a day other than
\* today: the handlers count in today's ledger and save() writes today's
\* file.
PastFile == FileOf([p \in {"X", "Y"} |-> IF p = "X" THEN EntryOld ELSE EntryTwo],
                   [e \in {".ts"} |-> 1])
C28_PastDaysReadOnly ==
  [][\A k \in AllKeys \ {dateString(0)} :
       /\ disk'[k] = disk[k]
       /\ k \in DOMAIN days["A"] =>
            k \in DOMAIN days'["A"] /\ days'["A"][k] = days["A"][k]]_vars
\* Yesterday's ledger is held in memory as its file has it, while today's
\* ledger has been counted in and saved.
C28_Witness ==
  /\ dateString(1) \in DOMAIN days["A"]
  /\ disk[dateString(1)] = PastFile
  /\ days["A"][dateString(1)].store = Parse(PastFile)
  /\ sv["A"].pc = "idle"
  /\ Parsable(disk[dateString(0)])
  /\ TasksIn(FileProjects(disk[dateString(0)]), "X") = 1
  /\ TasksIn(TodayProjects, "X") = 1

\* C29: each mutation of a project changes, in today's ledger, the one field
\* it is about in the entry of the project it names (a zero entry if there
\* was none): addBranch the branches, incrementTasks the tasks by 1,
\* incrementDebugs the debugs by 1, a settle (by updateAllDaySeconds or by
\* endTracking) the seconds by the elapsed time.  The other three fields of
\* that entry, the entries of all other projects and the save counts stay as
\* they were, and the first three leave the sessions alone.
BaseEntry(p) == IF p \in DOMAIN TodayProjects THEN TodayProjects[p] ELSE ZeroEntry
OnlyField(p, f, v) ==
  /\ ret' # Threw
  /\ TodayProjects' = Put(TodayProjects, p, [BaseEntry(p) EXCEPT ![f] = v])
  /\ TodaySaves' = TodaySaves
C29_OneFieldEach ==
  /\ [][addBranch("A", "X", "dev") =>
          /\ OnlyField("X", "branches",
                       IF "dev" \in Range(BaseEntry("X").branches)
                       THEN BaseEntry("X").branches
                       ELSE Append(BaseEntry("X").branches, "dev"))
          /\ active' = active]_vars
  /\ [][incrementTasks("A", "X") =>
          OnlyField("X", "tasks", BaseEntry("X").tasks + 1) /\ active' = active]_vars
  /\ [][incrementDebugs("A", "X") =>
          OnlyField("X", "debugs", BaseEntry("X").debugs + 1) /\ active' = active]_vars
  /\ [][(updateAllDaySeconds("A") \/ endTracking("A", "X")) =>
          IF "X" \in DOMAIN active["A"]
          THEN OnlyField("X", "seconds",
                         BaseEntry("X").seconds + Max(0, now - active["A"]["X"]))
          ELSE days' = days]_vars
\* A project that the file did not have, with a settled second, a branch and
\* a debug session, each put there by its own call.
C29_Witness ==
  /\ "A" \in up /\ disk[dateString(0)] = FileOf(EmptyObj, EmptyObj)
  /\ TodayProjects = [p \in {"X"} |-> [seconds |-> 1, branches |-> <<"dev">>,
                                        tasks |-> 0, debugs |-> 1]]
  /\ TodaySaves = EmptyObj

\* C31: when the load of a day that getStats made resident completes, what
\* the handlers have counted in that day's ledger since the call began is
\* still there: every project counted has its entry with at least the tasks
\* it had, and every save count is at least what it was.
C31_CountedDuringLoadKept ==
  [][(sv["A"].pc = "load" /\ GetStatsLoaded("A")) =>
       LET before == days["A"][sv["A"].key].store.day
           after == days'["A"][sv["A"].key].store.day
       IN /\ \A p \in DOMAIN before.projects :
               /\ p \in DOMAIN after.projects
               /\ after.projects[p].tasks >= before.projects[p].tasks
          /\ \A e \in DOMAIN before.saves :
               e \in DOMAIN after.saves /\ after.saves[e] >= before.saves[e]]_vars
====
